---- MODULE Spec2Model ----
(***************************************************************************)
(* A model of the hybrid retrieval engine of IR-group-project:             *)
(*   retrieving/indexing/vector_index.py      VectorIndex                  *)
(*   retrieving/indexing/inverted_index.py    InvertedIndex                *)
(*   retrieving/scoring/*.py                  the two scorers              *)
(*   retrieving/hybrid_retriever/...          HybridRetriever (RRF)        *)
(*   retrieving/main.py                       the script that wires them   *)
(* and of its crawler:                                                     *)
(*   crawling/crawler.py, crawling/main_crawler.py   the crawl loop        *)
(*                                                                         *)
(* Conventions.                                                            *)
(*  - A chunk id "c<i>" is the natural number i; for i < 10 the lexical    *)
(*    order of the strings is the order of the numbers.                    *)
(*  - A Python float is an exact rational <<num, den>> in lowest terms     *)
(*    with den > 0.  The vectors of the model have integer L2 norms, so    *)
(*    every quotient the code forms is such a rational.                    *)
(*  - A method is an operator from the object and the arguments to its     *)
(*    outcome; an outcome's status is "ok" or the name of the exception.    *)
(***************************************************************************)
EXTENDS Integers, Sequences, FiniteSets, TLC

VARIABLES
    \* VectorIndex (vector_index.py:18-22)
    embeddings, document_ids, embeddings_matrix, normalized_embeddings_matrix,
    \* the two artifacts of VectorIndex.save, and what the saving index answered
    vec_disk, vec_saved,
    \* InvertedIndex (inverted_index.py:20-25)
    index, chunk_lengths, N, avg_dl,
    \* the artifact of InvertedIndex.save, and the index that wrote it
    inv_disk, inv_saved,
    \* one call of the fusion of HybridRetriever.retrieve on two result
    \* lists: its inputs, its locals, what it returns
    fusion,
    \* the HybridRetriever object, and the outcome of the latest call on it
    retriever, outcome,
    \* the KeywordScorer object, and the outcome of the latest call on it
    scorer, scored,
    \* one run of the crawler: the state of main, the robots.txt it read,
    \* the state folder on disk, the URL of its latest request, and the
    \* URLs it has taken from the frontier
    crawl,
    \* the latest call that changed the state
    last,
    \* number of counted operations so far (see Count)
    ops

vecVars == <<embeddings, document_ids, embeddings_matrix,
             normalized_embeddings_matrix, vec_disk, vec_saved>>
invVars == <<index, chunk_lengths, N, avg_dl, inv_disk, inv_saved>>
hybVars == <<fusion, retriever, outcome>>
kwVars == <<scorer, scored>>
vars == <<vecVars, invVars, hybVars, kwVars, crawl, last, ops>>

(***************************************************************************)
(* Bounds of the model.                                                    *)
(***************************************************************************)
NumChunks == 2
NumDocs == 3
MaxOps == 3
MaxK == 2
MaxBatch == 2

ChunkIds == 1..NumChunks

(***************************************************************************)
(* Rationals.                                                              *)
(***************************************************************************)
Abs(x) == IF x < 0 THEN -x ELSE x

RECURSIVE GCD(_, _)
GCD(a, b) == IF b = 0 THEN a ELSE GCD(b, a % b)

Frac(n, d) ==
    LET g == GCD(Abs(n), Abs(d))
        s == IF d < 0 THEN -1 ELSE 1
    IN  <<(s * n) \div g, (s * d) \div g>>

FZero == <<0, 1>>
FAdd(a, b) == Frac(a[1] * b[2] + b[1] * a[2], a[2] * b[2])
FMul(a, b) == Frac(a[1] * b[1], a[2] * b[2])
FLess(a, b) == a[1] * b[2] < b[1] * a[2]
FSub(a, b) == Frac(a[1] * b[2] - b[1] * a[2], a[2] * b[2])
FDiv(a, b) == Frac(a[1] * b[2], a[2] * b[1])

RECURSIVE SumSeq(_)
SumSeq(s) == IF s = <<>> THEN 0 ELSE Head(s) + SumSeq(Tail(s))

RECURSIVE FSumSeq(_)
FSumSeq(s) == IF s = <<>> THEN FZero ELSE FAdd(Head(s), FSumSeq(Tail(s)))

Reverse(s) == [i \in 1..Len(s) |-> s[Len(s) + 1 - i]]
Take(s, n) == [i \in 1..(IF n < Len(s) THEN n ELSE Len(s)) |-> s[i]]
Range(s) == {s[i] : i \in 1..Len(s)}

(***************************************************************************)
(* numpy arrays.  An array is [kind, ndim, data]: data is the vector of a  *)
(* 1-D array (the flattened content otherwise).  A matrix is a sequence of *)
(* rows; np.empty((0, 0)) is <<>>.                                         *)
(***************************************************************************)
Array1(v) == [kind |-> "ndarray", ndim |-> 1, data |-> v]

\* Embeddings a caller may hand to add_document: a vector of length 2 (not
\* of unit norm), a zero vector of another length, a 2-D array, a Python
\* list.
EmbeddingInputs ==
    { Array1(<<3, 4>>), Array1(<<0>>),
      [kind |-> "ndarray", ndim |-> 2, data |-> <<1, 0>>],
      [kind |-> "list", ndim |-> 1, data |-> <<1, 0>>] }

\* Query embeddings: two well-formed ones of length 2, one of another
\* length, one that is not 1-D.  (A zero query divides by a zero norm.)
QueryInputs ==
    { Array1(<<1, 0>>), Array1(<<3, 4>>), Array1(<<2>>),
      [kind |-> "ndarray", ndim |-> 2, data |-> <<1, 0>>] }

MatrixSize(M) == IF M = <<>> THEN 0 ELSE Len(M) * Len(M[1])

ISqrt(x) == CHOOSE r \in 0..x : r * r = x
Norm(v) == ISqrt(SumSeq([i \in 1..Len(v) |-> v[i] * v[i]]))

\* norms[norms == 0] = 1e-9: a row of norm 0 is divided by 1e-9.
ZeroNormDivisorInv == 1000000000

NormalizeRow(v) ==
    LET n == Norm(v)
    IN  [i \in 1..Len(v) |->
            IF n = 0 THEN Frac(v[i] * ZeroNormDivisorInv, 1) ELSE Frac(v[i], n)]

\* vector_index.py:37-39, the normalization of build()
BuildNormalize(M) == [r \in 1..Len(M) |-> NormalizeRow(M[r])]

\* vector_index.py:116-118, the normalization of load()
LoadNormalize(M) == [r \in 1..Len(M) |-> NormalizeRow(M[r])]

LoadNoNormalize(M) ==
    [r \in 1..Len(M) |-> [i \in 1..Len(M[r]) |-> Frac(M[r][i], 1)]]

Dot(q, row) == FSumSeq([i \in 1..Len(q) |-> FMul(q[i], row[i])])

\* np.argsort(similarities) sorts ascending with the default kind
\* "quicksort", which is not a stable sort: the order of the indices of
\* equal values is left to the numpy build (index order where the sort
\* falls back to insertion sort, another order in the vectorised sorts).
\* ties is that order: equal values by ascending or by descending index.
ArgsortTies == {"ascending", "descending"}

RECURSIVE ArgsortFrom(_, _, _)
ArgsortFrom(sims, left, ties) ==
    IF left = {} THEN <<>>
    ELSE LET m == CHOOSE i \in left :
                    \A j \in left \ {i} :
                        \/ FLess(sims[i], sims[j])
                        \/ /\ sims[i] = sims[j]
                           /\ IF ties = "ascending" THEN i < j ELSE j < i
         IN  <<m>> \o ArgsortFrom(sims, left \ {m}, ties)
Argsort(sims, ties) == ArgsortFrom(sims, 1..Len(sims), ties)

(***************************************************************************)
(* Chunks and the external embedder.  A chunk is its id; its text is a     *)
(* sequence of raw words.  EmbeddingModel.encode is an opaque capability   *)
(* that maps each text to a fixed unit vector of dimension 2.              *)
(***************************************************************************)
\* Chunk 0 is chunk c1 after its text was emptied: Chunk(id="c1", text="").
ChunkId(c) == IF c = 0 THEN 1 ELSE c

\* Chunks 11, 12, 13 are the three chunks c1, c2, c3 of an English corpus.
ChunkText(c) ==
    CASE c = 11 -> <<"trade", "policy", "Brazil", "agriculture">>
      [] c = 12 -> <<"agriculture", "subsidies", "Brazil">>
      [] c = 13 -> <<"unrelated", "astronomy", "text">>
      [] c < 11 /\ c % 3 = 1 -> <<"Guerra", "guerre", "iran">>
      [] c < 11 /\ c % 3 = 2 -> <<"iran">>
      [] OTHER -> <<>>

Encode(text) ==
    CASE Len(text) = 0 -> <<0, 1>>
      [] Len(text) = 1 -> <<1, 0>>
      [] OTHER -> <<0, -1>>

\* The chunk lists a caller may pass: the leading chunks of the corpus
\* c1, c2, ... and of the same corpus in the opposite order.
ChunkSeqs ==
    { [i \in 1..n |-> i] : n \in 0..NumChunks } \cup
    { [i \in 1..n |-> NumChunks + 1 - i] : n \in 0..NumChunks }

Min(a, b) == IF a < b THEN a ELSE b

(***************************************************************************)
(* VectorIndex.  The object is the record VI of its four attributes; each  *)
(* method is an operator from the object (and arguments) to the outcome    *)
(* [status, vi, results].                                                  *)
(***************************************************************************)
VectorIndex_init ==
    [embeddings |-> <<>>, document_ids |-> <<>>,
     embeddings_matrix |-> <<>>, normalized_embeddings_matrix |-> <<>>]

VI == [embeddings |-> embeddings, document_ids |-> document_ids,
       embeddings_matrix |-> embeddings_matrix,
       normalized_embeddings_matrix |-> normalized_embeddings_matrix]

Outcome(st, vi, res) == [status |-> st, vi |-> vi, results |-> res]

add_document_restacking(vi, doc_id, embedding) ==
    IF embedding.kind # "ndarray" \/ embedding.ndim # 1
    THEN Outcome("ValueError", vi, <<>>)
    ELSE Outcome("ok",
                 [vi EXCEPT
                    !.document_ids = Append(@, doc_id),
                    !.embeddings = Append(@, embedding.data),
                    !.embeddings_matrix = <<embedding.data>>,
                    !.normalized_embeddings_matrix =
                        BuildNormalize(<<embedding.data>>)], <<>>)

VectorIndex_add_document(vi, doc_id, embedding) ==
    IF embedding.kind # "ndarray" \/ embedding.ndim # 1
    THEN Outcome("ValueError", vi, <<>>)
    ELSE Outcome("ok",
                 [vi EXCEPT !.document_ids = Append(@, doc_id),
                            !.embeddings = Append(@, embedding.data)], <<>>)

\* np.vstack raises ValueError unless all the rows have one length.
VStackRaises(embs) ==
    \E i, j \in 1..Len(embs) : Len(embs[i]) # Len(embs[j])

VectorIndex_build(vi) ==
    IF vi.embeddings # <<>>
    THEN IF VStackRaises(vi.embeddings)
         THEN Outcome("ValueError", vi, <<>>)
         ELSE Outcome("ok",
                      [vi EXCEPT
                         !.embeddings_matrix = vi.embeddings,
                         !.normalized_embeddings_matrix =
                             BuildNormalize(vi.embeddings)], <<>>)
    ELSE Outcome("ok",
                 [vi EXCEPT !.embeddings_matrix = <<>>,
                            !.normalized_embeddings_matrix = <<>>], <<>>)

SearchResults(vi, query_embedding, k, ties) ==
    LET M == vi.normalized_embeddings_matrix
        q == query_embedding.data
        query_norm == [i \in 1..Len(q) |-> Frac(q[i], Norm(q))]
        similarities == [r \in 1..Len(M) |-> Dot(query_norm, M[r])]
        top_k_indices == Take(Reverse(Argsort(similarities, ties)), k)
    IN  IF \E i \in 1..Len(top_k_indices) :
               top_k_indices[i] > Len(vi.document_ids)
        THEN \* self.document_ids[idx]: list index out of range
             Outcome("IndexError", vi, <<>>)
        ELSE Outcome("ok", vi,
                     [i \in 1..Len(top_k_indices) |->
                        <<vi.document_ids[top_k_indices[i]],
                          similarities[top_k_indices[i]]>>])

search_truncating_query(vi, query_embedding, k, ties) ==
    LET M == vi.normalized_embeddings_matrix IN
    IF MatrixSize(M) = 0
    THEN Outcome("ok", vi, <<>>)
    ELSE IF query_embedding.kind # "ndarray" \/ query_embedding.ndim # 1
    THEN Outcome("ValueError", vi, <<>>)
    ELSE IF Len(query_embedding.data) # Len(M[1])
    THEN Outcome("ok", vi, <<>>)
    ELSE SearchResults(vi, query_embedding, k, ties)

VectorIndex_search(vi, query_embedding, k, ties) ==
    LET M == vi.normalized_embeddings_matrix IN
    IF MatrixSize(M) = 0
    THEN Outcome("ok", vi, <<>>)
    ELSE IF query_embedding.kind # "ndarray" \/ query_embedding.ndim # 1
    THEN Outcome("ValueError", vi, <<>>)
    ELSE IF Len(query_embedding.data) # Len(M[1])
    THEN \* np.dot: shapes not aligned
         Outcome("ValueError", vi, <<>>)
    ELSE SearchResults(vi, query_embedding, k, ties)

RECURSIVE AddZip(_, _, _, _)
AddZip(vi, batch_chunks, vectors, j) ==
    IF j > Len(batch_chunks) THEN Outcome("ok", vi, <<>>)
    ELSE LET r == VectorIndex_add_document(vi, batch_chunks[j], vectors[j])
         IN  IF r.status # "ok" THEN r
             ELSE AddZip(r.vi, batch_chunks, vectors, j + 1)

RECURSIVE batches_without_remainder(_, _, _, _)
batches_without_remainder(vi, chunks, i, batch_size) ==
    IF i + batch_size > Len(chunks) THEN Outcome("ok", vi, <<>>)
    ELSE LET batch_chunks == SubSeq(chunks, i + 1, i + batch_size)
             vectors == [j \in 1..Len(batch_chunks) |->
                            Array1(Encode(ChunkText(batch_chunks[j])))]
             r == AddZip(vi, batch_chunks, vectors, 1)
         IN  IF r.status # "ok" THEN r
             ELSE batches_without_remainder(r.vi, chunks, i + batch_size,
                                            batch_size)

RECURSIVE AddBatches(_, _, _, _)
AddBatches(vi, chunks, i, batch_size) ==
    IF i >= Len(chunks) THEN Outcome("ok", vi, <<>>)
    ELSE LET batch_chunks == SubSeq(chunks, i + 1, Min(i + batch_size, Len(chunks)))
             vectors == [j \in 1..Len(batch_chunks) |->
                            Array1(Encode(ChunkText(batch_chunks[j])))]
             r == AddZip(vi, batch_chunks, vectors, 1)
         IN  IF r.status # "ok" THEN r
             ELSE AddBatches(r.vi, chunks, i + batch_size, batch_size)

VectorIndex_build_index(vi, chunks, batch_size) ==
    LET r == AddBatches(vi, chunks, 0, batch_size)
    IN  IF r.status # "ok" THEN r ELSE VectorIndex_build(r.vi)

\* The two artifacts <prefix>_embeddings.npy and <prefix>_ids.pkl.
NoVecDisk == [emb_exists |-> FALSE, emb |-> <<>>,
              ids_exists |-> FALSE, ids |-> <<>>]

VectorIndex_save(vi) ==
    [emb_exists |-> TRUE, emb |-> vi.embeddings_matrix,
     ids_exists |-> TRUE, ids |-> vi.document_ids]

load_without_normalizing(vi, disk) ==
    IF ~disk.emb_exists \/ ~disk.ids_exists
    THEN Outcome("FileNotFoundError", vi, <<>>)
    ELSE Outcome("ok",
                 [vi EXCEPT
                    !.embeddings_matrix = disk.emb,
                    !.document_ids = disk.ids,
                    !.normalized_embeddings_matrix = LoadNoNormalize(disk.emb)],
                 <<>>)

load_checking_one_artifact(vi, disk) ==
    IF ~disk.emb_exists
    THEN Outcome("FileNotFoundError", vi, <<>>)
    ELSE IF ~disk.ids_exists
    THEN Outcome("FileNotFoundError",
                 [vi EXCEPT !.embeddings_matrix = disk.emb], <<>>)
    ELSE Outcome("ok",
                 [vi EXCEPT
                    !.embeddings_matrix = disk.emb,
                    !.document_ids = disk.ids,
                    !.normalized_embeddings_matrix = LoadNormalize(disk.emb)],
                 <<>>)

VectorIndex_load(vi, disk) ==
    IF ~disk.emb_exists \/ ~disk.ids_exists
    THEN Outcome("FileNotFoundError", vi, <<>>)
    ELSE Outcome("ok",
                 [vi EXCEPT
                    !.embeddings_matrix = disk.emb,
                    !.document_ids = disk.ids,
                    !.normalized_embeddings_matrix = LoadNormalize(disk.emb)],
                 <<>>)

(***************************************************************************)
(* The calls on the vector index.                                          *)
(***************************************************************************)
\* last names the latest call that returned and changed an object or the
\* disk; a call that raises, and a search, leave every variable as it was.
NoCall == "none"

SetVI(vi) ==
    /\ embeddings' = vi.embeddings
    /\ document_ids' = vi.document_ids
    /\ embeddings_matrix' = vi.embeddings_matrix
    /\ normalized_embeddings_matrix' = vi.normalized_embeddings_matrix

\* A call that returns and changes an index object, and a removal of a
\* file, count as one operation; a call that raises, and a save (it writes
\* the disk and leaves the object alone), are free.
Count(st) ==
    /\ st = "ok" => ops < MaxOps
    /\ ops' = IF st = "ok" THEN ops + 1 ELSE ops

VecNew ==
    /\ SetVI(VectorIndex_init)
    /\ Count("ok")
    /\ last' = "VectorIndex"
    /\ UNCHANGED <<vec_disk, vec_saved>>

VecAddDocument(doc_id, embedding) ==
    LET r == VectorIndex_add_document(VI, doc_id, embedding) IN
    /\ SetVI(r.vi)
    /\ Count(r.status)
    /\ last' = IF r.status = "ok" THEN "add_document" ELSE last
    /\ UNCHANGED <<vec_disk, vec_saved>>

VecBuild ==
    LET r == VectorIndex_build(VI) IN
    /\ SetVI(r.vi)
    /\ Count(r.status)
    /\ last' = IF r.status = "ok" THEN "build" ELSE last
    /\ UNCHANGED <<vec_disk, vec_saved>>

VecBuildIndex(chunks, batch_size) ==
    LET r == VectorIndex_build_index(VI, chunks, batch_size) IN
    /\ SetVI(r.vi)
    /\ ops < MaxOps
    /\ ops' = ops + 1
    /\ last' = "build_index"
    /\ UNCHANGED <<vec_disk, vec_saved>>

VecSearch(query_embedding, k, ties) ==
    LET r == VectorIndex_search(VI, query_embedding, k, ties) IN
    /\ SetVI(r.vi)
    /\ last' = last
    /\ UNCHANGED <<vec_disk, vec_saved, ops>>

VecSave ==
    /\ vec_disk' = VectorIndex_save(VI)
    /\ vec_saved' = VI
    /\ ops' = ops
    /\ last' = "VectorIndex.save"
    /\ UNCHANGED <<embeddings, document_ids, embeddings_matrix,
                   normalized_embeddings_matrix>>

VecLoad ==
    LET r == VectorIndex_load(VI, vec_disk) IN
    /\ SetVI(r.vi)
    /\ Count(r.status)
    /\ last' = IF r.status = "ok" THEN "VectorIndex.load" ELSE last
    /\ UNCHANGED <<vec_disk, vec_saved>>

\* The environment removes one of the two artifacts.
VecRemoveFile(which) ==
    /\ IF which = "emb" THEN vec_disk.emb_exists ELSE vec_disk.ids_exists
    /\ vec_disk' = IF which = "emb"
                   THEN [vec_disk EXCEPT !.emb_exists = FALSE, !.emb = <<>>]
                   ELSE [vec_disk EXCEPT !.ids_exists = FALSE, !.ids = <<>>]
    /\ Count("ok")
    /\ last' = "remove"
    /\ UNCHANGED <<embeddings, document_ids, embeddings_matrix,
                   normalized_embeddings_matrix, vec_saved>>

\* The ids a caller hands to add_document: the first and the last chunk id.
DocIdInputs == {1, NumChunks}

VecInit ==
    /\ embeddings = VectorIndex_init.embeddings
    /\ document_ids = VectorIndex_init.document_ids
    /\ embeddings_matrix = VectorIndex_init.embeddings_matrix
    /\ normalized_embeddings_matrix = VectorIndex_init.normalized_embeddings_matrix
    /\ vec_disk = NoVecDisk
    /\ vec_saved = VectorIndex_init

VecNext ==
    \/ VecNew
    \/ \E c \in DocIdInputs, e \in EmbeddingInputs : VecAddDocument(c, e)
    \/ VecBuild
    \/ \E cs \in ChunkSeqs, bs \in 1..MaxBatch : VecBuildIndex(cs, bs)
    \/ \E q \in QueryInputs, t \in ArgsortTies : VecSearch(q, MaxK, t)
    \/ VecSave
    \/ VecLoad
    \/ \E w \in {"emb", "ids"} : VecRemoveFile(w)

(***************************************************************************)
(* Python dicts, as sequences of <<key, value>> in insertion order.        *)
(***************************************************************************)
DictHas(d, key) == \E i \in 1..Len(d) : d[i][1] = key
DictGet(d, key, default) ==
    IF DictHas(d, key)
    THEN d[CHOOSE i \in 1..Len(d) : d[i][1] = key][2]
    ELSE default
DictSet(d, key, value) ==
    IF DictHas(d, key)
    THEN [i \in 1..Len(d) |-> IF d[i][1] = key THEN <<key, value>> ELSE d[i]]
    ELSE Append(d, <<key, value>>)
DictValues(d) == [i \in 1..Len(d) |-> d[i][2]]

(***************************************************************************)
(* Tokenizer and stemmer.  A text is the sequence of its \w+ runs; lower() *)
(* and the Snowball stemmer are the tables below.                          *)
(***************************************************************************)
Lower(w) ==
    CASE w = "Guerra" -> "guerra"
      [] w \in {"Iran", "IRAN"} -> "iran"
      [] w = "Guerr" -> "guerr"
      [] w = "Brazil" -> "brazil"
      [] OTHER -> w

\* The Italian stemmer drops a final vowel; words that differ keep stems
\* that differ.
SnowballStem(w) ==
    CASE w \in {"guerra", "guerre"} -> "guerr"
      [] w = "agriculture" -> "agricultur"
      [] w = "trade" -> "trad"
      [] OTHER -> w

stem_tokens(tokens) == [i \in 1..Len(tokens) |-> SnowballStem(tokens[i])]

InvertedIndex_tokenize(text) ==
    stem_tokens([i \in 1..Len(text) |-> Lower(text[i])])

\* collections.Counter(tokens): term -> tf, in order of first occurrence
RECURSIVE Counter(_)
Counter(tokens) ==
    IF tokens = <<>> THEN <<>>
    ELSE LET c == Counter(SubSeq(tokens, 1, Len(tokens) - 1))
             t == tokens[Len(tokens)]
         IN  DictSet(c, t, DictGet(c, t, 0) + 1)

(***************************************************************************)
(* InvertedIndex.  The object is the record II of its attributes.          *)
(***************************************************************************)
InvertedIndex_init ==
    [index |-> <<>>, chunk_lengths |-> <<>>, N |-> 0, avg_dl |-> FZero]

II == [index |-> index, chunk_lengths |-> chunk_lengths, N |-> N,
       avg_dl |-> avg_dl]

\* for term, tf in term_freqs.items(): self.index[term].append((chunk.id, tf))
RECURSIVE AppendPostings(_, _, _)
AppendPostings(idx, term_freqs, chunk_id) ==
    IF term_freqs = <<>> THEN idx
    ELSE LET term == Head(term_freqs)[1]
             tf == Head(term_freqs)[2]
         IN  AppendPostings(
                 DictSet(idx, term, Append(DictGet(idx, term, <<>>), <<chunk_id, tf>>)),
                 Tail(term_freqs), chunk_id)

RECURSIVE IndexChunks(_, _)
IndexChunks(ii, chunks) ==
    IF chunks = <<>> THEN ii
    ELSE LET chunk == Head(chunks)
             tokens == InvertedIndex_tokenize(ChunkText(chunk))
         IN  IndexChunks(
                 [ii EXCEPT
                    !.chunk_lengths = DictSet(@, ChunkId(chunk), Len(tokens)),
                    !.index = AppendPostings(@, Counter(tokens),
                                             ChunkId(chunk))],
                 Tail(chunks))

\* build_index averaging over the lengths of the chunks of this call only.
build_index_averaging_call(ii, chunks) ==
    LET b == IndexChunks(ii, chunks)
        n == Len(chunks)
    IN  [b EXCEPT !.N = n,
                  !.avg_dl = IF n # 0 THEN Frac(SumSeq([i \in 1..n |->
                                 Len(InvertedIndex_tokenize(ChunkText(chunks[i])))]), n)
                             ELSE @]

InvertedIndex_build_index(ii, chunks) ==
    LET b == IndexChunks(ii, chunks)
        n == Len(chunks)
    IN  [b EXCEPT !.N = n,
                  !.avg_dl = IF n # 0
                             THEN Frac(SumSeq(DictValues(b.chunk_lengths)), n)
                             ELSE @]

postings_without_lower(ii, term) == DictGet(ii.index, term, <<>>)

InvertedIndex_get_postings(ii, term) == DictGet(ii.index, Lower(term), <<>>)

InvertedIndex_df(ii, term) == Len(DictGet(ii.index, Lower(term), <<>>))

\* self.index[key] on the defaultdict(list): a missing key is inserted
defaultdict_getitem(d, key, default) ==
    [d |-> IF DictHas(d, key) THEN d ELSE Append(d, <<key, default>>),
     value |-> DictGet(d, key, default)]

\* self.index.get(key, default): the dict after the call, and the value
dict_get(d, key, default) == [d |-> d, value |-> DictGet(d, key, default)]

\* get_postings and df as calls: the index after the call, and the answer
get_postings_call(ii, term) ==
    LET g == dict_get(ii.index, Lower(term), <<>>)
    IN  [ii |-> [ii EXCEPT !.index = g.d], postings |-> g.value]

df_call(ii, term) ==
    LET g == dict_get(ii.index, Lower(term), <<>>)
    IN  [ii |-> [ii EXCEPT !.index = g.d], df |-> Len(g.value)]

\* the index after the lookups of score (lines 48-49), term by term
RECURSIVE IndexAfterLookups(_, _)
IndexAfterLookups(ii, terms) ==
    IF terms = <<>> THEN ii
    ELSE IndexAfterLookups(
             df_call(get_postings_call(ii, Head(terms)).ii, Head(terms)).ii,
             Tail(terms))

NoInvDisk == [exists |-> FALSE, data |-> InvertedIndex_init]

InvertedIndex_save(ii) ==
    [exists |-> TRUE,
     data |-> [index |-> ii.index, chunk_lengths |-> ii.chunk_lengths,
               N |-> ii.N, avg_dl |-> ii.avg_dl]]

load_without_avg_dl(ii, disk) ==
    IF ~disk.exists
    THEN [status |-> "FileNotFoundError", ii |-> ii]
    ELSE [status |-> "ok",
          ii |-> [index |-> disk.data.index,
                  chunk_lengths |-> disk.data.chunk_lengths,
                  N |-> disk.data.N,
                  avg_dl |-> ii.avg_dl]]

InvertedIndex_load(ii, disk) ==
    IF ~disk.exists
    THEN [status |-> "FileNotFoundError", ii |-> ii]
    ELSE [status |-> "ok",
          ii |-> [index |-> disk.data.index,
                  chunk_lengths |-> disk.data.chunk_lengths,
                  N |-> disk.data.N,
                  avg_dl |-> disk.data.avg_dl]]

(***************************************************************************)
(* The calls on the inverted index.                                        *)
(***************************************************************************)
SetII(ii) ==
    /\ index' = ii.index
    /\ chunk_lengths' = ii.chunk_lengths
    /\ N' = ii.N
    /\ avg_dl' = ii.avg_dl

InvNew ==
    /\ SetII(InvertedIndex_init)
    /\ Count("ok")
    /\ last' = "InvertedIndex"
    /\ UNCHANGED <<inv_disk, inv_saved>>

\* The chunk lists given to InvertedIndex.build_index.
InvChunkSeqs == ChunkSeqs \cup {<<0>>}

InvBuildIndex(chunks) ==
    /\ SetII(InvertedIndex_build_index(II, chunks))
    /\ Count("ok")
    /\ last' = "InvertedIndex.build_index"
    /\ UNCHANGED <<inv_disk, inv_saved>>

InvSave ==
    /\ inv_disk' = InvertedIndex_save(II)
    /\ inv_saved' = II
    /\ ops' = ops
    /\ last' = "InvertedIndex.save"
    /\ UNCHANGED <<index, chunk_lengths, N, avg_dl>>

InvLoad ==
    LET r == InvertedIndex_load(II, inv_disk) IN
    /\ SetII(r.ii)
    /\ Count(r.status)
    /\ last' = IF r.status = "ok" THEN "InvertedIndex.load" ELSE last
    /\ UNCHANGED <<inv_disk, inv_saved>>

\* The environment removes the artifact.
InvRemoveFile ==
    /\ inv_disk.exists
    /\ inv_disk' = NoInvDisk
    /\ Count("ok")
    /\ last' = "remove"
    /\ UNCHANGED <<index, chunk_lengths, N, avg_dl, inv_saved>>

InvInit ==
    /\ index = InvertedIndex_init.index
    /\ chunk_lengths = InvertedIndex_init.chunk_lengths
    /\ N = InvertedIndex_init.N
    /\ avg_dl = InvertedIndex_init.avg_dl
    /\ inv_disk = NoInvDisk
    /\ inv_saved = InvertedIndex_init

InvNext ==
    \/ InvNew
    \/ \E cs \in InvChunkSeqs : InvBuildIndex(cs)
    \/ InvSave
    \/ InvLoad
    \/ InvRemoveFile

(***************************************************************************)
(* HybridRetriever.retrieve, lines 35-54: Reciprocal Rank Fusion of the    *)
(* two result lists.  A result list is the sequence of the ids of its      *)
(* documents (the loops read doc.id and drop the score); the returned list *)
(* is a sequence of <<doc id, fused score>>.                               *)
(***************************************************************************)
rrf_k_const == 60

rrf_rank_from_one(rank) == Frac(1, rrf_k_const + rank + 2)

\* 1.0 / (rrf_k_const + rank + 1)
RRFContribution(rank) == Frac(1, rrf_k_const + rank + 1)

\* for rank, (doc, _) in enumerate(results): combined_scores[doc.id] += ...
RECURSIVE Accumulate(_, _, _)
Accumulate(combined_scores, results, rank) ==
    IF results = <<>> THEN combined_scores
    ELSE Accumulate(
             DictSet(combined_scores, Head(results),
                     FAdd(DictGet(combined_scores, Head(results), FZero),
                          RRFContribution(rank))),
             Tail(results), rank + 1)

CombinedScores(vector_results, keyword_results) ==
    Accumulate(Accumulate(<<>>, vector_results, 0), keyword_results, 0)

RemoveAt(s, i) == SubSeq(s, 1, i - 1) \o SubSeq(s, i + 1, Len(s))

\* sorted(items, key=score): ascending, equal scores in their given order
RECURSIVE SortedAscending(_)
SortedAscending(items) ==
    IF items = <<>> THEN <<>>
    ELSE LET m == CHOOSE i \in 1..Len(items) :
                    \A j \in 1..Len(items) \ {i} :
                        \/ FLess(items[i][2], items[j][2])
                        \/ (items[i][2] = items[j][2] /\ i < j)
         IN  <<items[m]>> \o SortedAscending(RemoveAt(items, m))

sorted_then_reversed(items) == Reverse(SortedAscending(items))

\* sorted(items, key=lambda x: x[1], reverse=True): descending, equal
\* scores in their given order (reverse=True keeps the sort stable)
RECURSIVE SortedDescending(_)
SortedDescending(items) ==
    IF items = <<>> THEN <<>>
    ELSE LET m == CHOOSE i \in 1..Len(items) :
                    \A j \in 1..Len(items) \ {i} :
                        \/ FLess(items[j][2], items[i][2])
                        \/ (items[i][2] = items[j][2] /\ i < j)
         IN  <<items[m]>> \o SortedDescending(RemoveAt(items, m))

\* lines 35-54: [status, combined_scores, results]
Fuse(documents_map, vector_results, keyword_results, k) ==
    LET combined_scores == CombinedScores(vector_results, keyword_results)
    IN  IF \E i \in 1..Len(combined_scores) :
               combined_scores[i][1] \notin documents_map
        THEN \* self.documents_map[doc_id]
             [status |-> "KeyError", combined_scores |-> combined_scores,
              results |-> <<>>]
        ELSE [status |-> "ok", combined_scores |-> combined_scores,
              results |-> Take(SortedDescending(combined_scores), k)]

DocIds == 1..NumDocs

\* The result lists a scorer may return: no document twice.
ResultLists ==
    { s \in UNION { [1..n -> DocIds] : n \in 0..NumDocs } :
        \A i, j \in DOMAIN s : i # j => s[i] # s[j] }

NoFusion ==
    [pc |-> "idle", vector_results |-> <<>>, keyword_results |-> <<>>,
     k |-> 0, status |-> "ok", combined_scores |-> <<>>, results |-> <<>>]

FusionStep ==
    /\ fusion.pc = "call"
    /\ LET r == Fuse(DocIds, fusion.vector_results, fusion.keyword_results,
                     fusion.k)
       IN  fusion' = [fusion EXCEPT !.pc = "done",
                                    !.status = r.status,
                                    !.combined_scores = r.combined_scores,
                                    !.results = r.results]
    /\ UNCHANGED <<vecVars, invVars, kwVars, crawl, retriever, outcome, last,
                   ops>>

(***************************************************************************)
(* KeywordScorer (keyword_scorer.py).  The object is [k1, b]; its index is *)
(* passed along.  math.log(x) is replaced by the rational 2(x-1)/(x+1),    *)
(* which has the sign and the monotonicity of the logarithm (and is within *)
(* a tenth of it on the arguments met here).  A BM25 term is a float: the  *)
(* model rounds it down to three decimals before it is accumulated, so the *)
(* sums stay exact and small.                                              *)
(***************************************************************************)
Float(x) == Frac((x[1] * 1000) \div x[2], 1000)

KeywordScorer_init(k1, b) == [k1 |-> k1, b |-> b]

\* the defaults k1 = 1.2, b = 0.75
DefaultScorer == KeywordScorer_init(Frac(6, 5), Frac(3, 4))

Log(x) == FDiv(FMul(Frac(2, 1), FSub(x, Frac(1, 1))), FAdd(x, Frac(1, 1)))

\* math.log((N - df + 0.5) / (df + 0.5) + 1)
KeywordScorer_idf(ii, df) ==
    Log(FAdd(Frac(2 * ii.N - 2 * df + 1, 2 * df + 1), Frac(1, 1)))

\* stem_text of SimpleStemmer, which cuts none of the words of the model
stem_text_of_simple_stemmer(text) == [i \in 1..Len(text) |-> Lower(text[i])]

\* CustomStemmer.stem_text: the same tokens and stems as the index
stem_text(text) == stem_tokens([i \in 1..Len(text) |-> Lower(text[i])])

score_posting_ignoring_length(ii, ks, acc, idf, chunk_id, tf) ==
    LET numerator == FMul(Frac(tf, 1), FAdd(ks.k1, Frac(1, 1)))
        denominator == FAdd(Frac(tf, 1), ks.k1)
    IN  IF denominator = FZero
        THEN [status |-> "ZeroDivisionError", raw_scores |-> acc.raw_scores]
        ELSE [status |-> "ok",
              raw_scores |->
                  DictSet(acc.raw_scores, chunk_id,
                          FAdd(DictGet(acc.raw_scores, chunk_id, FZero),
                               Float(FDiv(FMul(idf, numerator),
                                          denominator))))]

\* lines 54-58 for one posting: [status, raw_scores]
ScorePosting(ii, ks, acc, idf, chunk_id, tf) ==
    IF ~DictHas(ii.chunk_lengths, chunk_id)
    THEN \* self.inv.chunk_lengths[chunk_id]
         [status |-> "KeyError", raw_scores |-> acc.raw_scores]
    ELSE IF ii.avg_dl = FZero
    THEN \* self.b * dl / self.inv.avg_dl
         [status |-> "ZeroDivisionError", raw_scores |-> acc.raw_scores]
    ELSE LET dl == DictGet(ii.chunk_lengths, chunk_id, 0)
             numerator == FMul(Frac(tf, 1), FAdd(ks.k1, Frac(1, 1)))
             denominator ==
                 FAdd(Frac(tf, 1),
                      FMul(ks.k1,
                           FAdd(FSub(Frac(1, 1), ks.b),
                                FDiv(FMul(ks.b, Frac(dl, 1)), ii.avg_dl))))
         IN  IF denominator = FZero
             THEN [status |-> "ZeroDivisionError",
                   raw_scores |-> acc.raw_scores]
             ELSE [status |-> "ok",
                   raw_scores |->
                       DictSet(acc.raw_scores, chunk_id,
                               FAdd(DictGet(acc.raw_scores, chunk_id, FZero),
                                    Float(FDiv(FMul(idf, numerator),
                                               denominator))))]

\* for chunk_id, tf in postings
RECURSIVE ScorePostings(_, _, _, _, _)
ScorePostings(ii, ks, acc, idf, postings) ==
    IF postings = <<>> \/ acc.status # "ok" THEN acc
    ELSE ScorePostings(ii, ks,
             ScorePosting(ii, ks, acc, idf, Head(postings)[1], Head(postings)[2]),
             idf, Tail(postings))

\* for term in query_freqs
RECURSIVE ScoreTerms(_, _, _, _)
ScoreTerms(ii, ks, acc, terms) ==
    IF terms = <<>> \/ acc.status # "ok" THEN acc
    ELSE LET term == Head(terms)
             postings == InvertedIndex_get_postings(ii, term)
             df == InvertedIndex_df(ii, term)
         IN  IF df = 0 THEN ScoreTerms(ii, ks, acc, Tail(terms))
             ELSE ScoreTerms(ii, ks,
                      ScorePostings(ii, ks, acc, KeywordScorer_idf(ii, df),
                                    postings),
                      Tail(terms))

\* lines 42-58: the raw BM25 sums, in the order the chunks are first met
RawScores(ii, ks, query) ==
    LET query_freqs == Counter(stem_text(query))
        terms == [i \in 1..Len(query_freqs) |-> query_freqs[i][1]]
    IN  ScoreTerms(ii, ks, [status |-> "ok", raw_scores |-> <<>>], terms)

RECURSIVE FMaxSeq(_)
FMaxSeq(s) ==
    IF Len(s) = 1 THEN s[1]
    ELSE LET m == FMaxSeq(Tail(s)) IN IF FLess(m, s[1]) THEN s[1] ELSE m

RECURSIVE FMinSeq(_)
FMinSeq(s) ==
    IF Len(s) = 1 THEN s[1]
    ELSE LET m == FMinSeq(Tail(s)) IN IF FLess(s[1], m) THEN s[1] ELSE m

normalize_by_max(raw_scores) ==
    LET max_s == FMaxSeq(DictValues(raw_scores))
    IN  [i \in 1..Len(raw_scores) |->
            <<raw_scores[i][1],
              IF max_s = FZero THEN Frac(1, 1)
              ELSE FDiv(raw_scores[i][2], max_s)>>]

\* lines 62-68, for raw_scores that is not empty
MinMaxNormalize(raw_scores) ==
    LET max_s == FMaxSeq(DictValues(raw_scores))
        min_s == FMinSeq(DictValues(raw_scores))
    IN  [i \in 1..Len(raw_scores) |->
            <<raw_scores[i][1],
              IF max_s # min_s
              THEN FDiv(FSub(raw_scores[i][2], min_s), FSub(max_s, min_s))
              ELSE Frac(1, 1)>>]

score_cutting_before_sort(ii, ks, query, top_k, normalize) ==
    LET raw == RawScores(ii, ks, query)
        scores == IF normalize /\ raw.raw_scores # <<>>
                  THEN MinMaxNormalize(raw.raw_scores)
                  ELSE raw.raw_scores
    IN  IF raw.status # "ok" THEN [status |-> raw.status, results |-> <<>>]
        ELSE [status |-> "ok",
              results |-> SortedDescending(Take(scores, top_k))]

\* KeywordScorer.score: [status, results]
KeywordScorer_score(ii, ks, query, top_k, normalize) ==
    LET raw == RawScores(ii, ks, query)
        scores == IF normalize /\ raw.raw_scores # <<>>
                  THEN MinMaxNormalize(raw.raw_scores)
                  ELSE raw.raw_scores
    IN  IF raw.status # "ok" THEN [status |-> raw.status, results |-> <<>>]
        ELSE [status |-> "ok",
              results |-> Take(SortedDescending(scores), top_k)]

\* The scorers of the model: the defaults, and k1 = 0 (a BM25 term is then
\* the idf alone, so the chunks matched by one term score the same).
ValidScorers == {DefaultScorer, KeywordScorer_init(FZero, Frac(3, 4))}

\* The terms looked up in the index.
TermInputs == {"iran", "Iran", "IRAN", "guerr", "Guerr", "pace"}

\* inv.get_postings(term) and inv.df(term), with what they leave in the index
InvLookup(term) ==
    LET g == get_postings_call(II, term)
        d == df_call(g.ii, term)
    IN  /\ d.df = Len(g.postings)
        /\ g.postings = InvertedIndex_get_postings(II, term)
        /\ SetII(d.ii)
        /\ UNCHANGED <<vecVars, inv_disk, inv_saved, hybVars, kwVars, crawl,
                       last, ops>>

\* scorer.score(query, top_k, normalize), with what its lookups leave in the
\* index
InvScore(ks, query, top_k, normalize) ==
    /\ KeywordScorer_score(II, ks, query, top_k, normalize).status
           \in {"ok", "KeyError", "ZeroDivisionError"}
    /\ LET query_freqs == Counter(stem_text(query))
       IN  SetII(IndexAfterLookups(II,
               [i \in 1..Len(query_freqs) |-> query_freqs[i][1]]))
    /\ UNCHANGED <<vecVars, inv_disk, inv_saved, hybVars, kwVars, crawl,
                   last, ops>>

\* KeywordScorer(inverted_index, k1, b): the arguments are stored as given.
KeywordScorerNew(k1, b) ==
    /\ scorer' = [exists |-> TRUE, ks |-> KeywordScorer_init(k1, b)]
    /\ scored' = [call |-> "KeywordScorer", query |-> <<>>, top_k |-> 0,
                  normalize |-> FALSE, status |-> "ok", results |-> <<>>]

\* scorer.score(query, top_k, normalize)
KeywordScore(query, top_k, normalize) ==
    /\ scorer.exists
    /\ LET r == KeywordScorer_score(II, scorer.ks, query, top_k, normalize)
       IN  scored' = [call |-> "score", query |-> query, top_k |-> top_k,
                      normalize |-> normalize, status |-> r.status,
                      results |-> r.results]
    /\ UNCHANGED scorer

NoScore == [call |-> "none", query |-> <<>>, top_k |-> 0,
            normalize |-> FALSE, status |-> "ok", results |-> <<>>]

KwInit ==
    /\ scorer = [exists |-> FALSE, ks |-> DefaultScorer]
    /\ scored = NoScore

\* The English corpus, in the two orders it is indexed in, and its queries.
ScenarioChunks == <<11, 12, 13>>
ScenarioSeqs == { <<>>, ScenarioChunks, Reverse(ScenarioChunks) }
ScenarioQueries == { <<"agriculture", "Brazil">>, <<"astronomy">> }

\* The values of k1 and b a KeywordScorer is constructed with.
K1Inputs == {Frac(6, 5), Frac(-1, 1)}
BInputs == {Frac(3, 4), Frac(2, 1)}

(***************************************************************************)
(* The scorers as HybridRetriever calls them, and the retriever's API.     *)
(***************************************************************************)
\* The query strings of the model, as sequences of raw words.
Queries == { <<"guerra", "iran">>, <<"Iran">>, <<"pace">> }

\* def score(self, query, k=5) of VectorialScorer
VectorialScorer_score_params == {"query", "k"}

\* def score(self, query, top_k=5, normalize=True) of KeywordScorer
KeywordScorer_score_params == {"query", "top_k", "normalize"}

\* def __init__(self, vectorial_scorer, keyword_scorer) of HybridRetriever
HybridRetriever_init_params == {"vectorial_scorer", "keyword_scorer"}

\* The methods of HybridRetriever.
HybridRetriever_methods == {"retrieve"}

\* Python binds the arguments of a call to the parameters of the callee
\* before its body runs: a keyword that names no parameter is a TypeError.
Bind(params, keywords) ==
    IF keywords \subseteq params THEN "ok" ELSE "TypeError"

\* The Document of documents_map with the given id.
Document(doc_id) == [id |-> doc_id]

\* vectorial_scorer.py:14-17.  documents_map is the set of its keys.
VectorialScorer_score(vi, documents_map, query, k, ties) ==
    LET query_embedding == Array1(Encode(query))
        r == VectorIndex_search(vi, query_embedding, k, ties)
    IN  IF r.status # "ok" THEN [status |-> r.status, results |-> <<>>]
        ELSE IF \E i \in 1..Len(r.results) : r.results[i][1] \notin documents_map
        THEN [status |-> "KeyError", results |-> <<>>]
        ELSE [status |-> "ok",
              results |-> [i \in 1..Len(r.results) |->
                              <<Document(r.results[i][1]), r.results[i][2]>>]]

\* Whether KeywordScorer.score finds a posting for a term of the query
\* (keyword_scorer.py:42-58), and whether it then divides by avg_dl = 0.
QueryTerms(query) == Range(InvertedIndex_tokenize(query))
KeywordMatches(ii, query) ==
    \E t \in QueryTerms(query) : InvertedIndex_df(ii, t) # 0

\* doc.id for doc, _ in results
Ids(results) == [i \in 1..Len(results) |-> results[i][1].id]

NoOutcome == [call |-> "none", status |-> "ok", alpha |-> FZero,
              results |-> <<>>]

\* hybrid_retriever.py:21-54.  Line 33 passes k= to KeywordScorer.score.
HybridRetriever_retrieve(vi, ii, documents_map, query, k, ties) ==
    LET v == IF Bind(VectorialScorer_score_params, {"query", "k"}) = "ok"
             THEN VectorialScorer_score(vi, documents_map, query, k * 2, ties)
             ELSE [status |-> "TypeError", results |-> <<>>]
        b == Bind(KeywordScorer_score_params, {"query", "k"})
    IN  IF v.status # "ok" THEN [status |-> v.status, results |-> <<>>]
        ELSE IF b # "ok" THEN [status |-> b, results |-> <<>>]
        ELSE IF KeywordMatches(ii, query) /\ ii.avg_dl = FZero
        THEN \* self.b * dl / self.inv.avg_dl
             [status |-> "ZeroDivisionError", results |-> <<>>]
        ELSE IF KeywordMatches(ii, query)
        THEN \* doc.id of a (chunk_id, score) pair whose first item is a str
             [status |-> "AttributeError", results |-> <<>>]
        ELSE LET f == Fuse(documents_map, Ids(v.results), <<>>, k)
             IN  [status |-> f.status, results |-> f.results]

\* The values of alpha a caller configures: 1/2, and the 9/10 of main.py.
Alphas == { Frac(1, 2), Frac(9, 10) }

\* HybridRetriever(vector_scorer, kw_scorer [, alpha=...])
HybridNew(docs, keywords, alpha) ==
    LET st == Bind(HybridRetriever_init_params,
                   {"vectorial_scorer", "keyword_scorer"} \cup keywords)
    IN  /\ retriever' = IF st = "ok"
                        THEN [exists |-> TRUE, documents_map |-> docs]
                        ELSE retriever
        /\ outcome' = [call |-> "HybridRetriever", status |-> st,
                       alpha |-> IF "alpha" \in keywords THEN alpha ELSE FZero,
                       results |-> <<>>]
        /\ UNCHANGED <<vecVars, invVars, kwVars, crawl, fusion, last, ops>>

\* hybrid.<method>(query, k)
HybridCall(method, query, k, ties) ==
    /\ retriever.exists
    /\ outcome' =
          IF method \notin HybridRetriever_methods
          THEN [call |-> method, status |-> "AttributeError",
                alpha |-> outcome.alpha, results |-> <<>>]
          ELSE LET r == HybridRetriever_retrieve(VI, II,
                            retriever.documents_map, query, k, ties)
               IN  [call |-> method, status |-> r.status,
                    alpha |-> outcome.alpha, results |-> r.results]
    /\ UNCHANGED <<vecVars, invVars, kwVars, crawl, fusion, retriever, last,
                   ops>>

HybInit ==
    /\ fusion = NoFusion
    /\ retriever = [exists |-> FALSE, documents_map |-> {}]
    /\ outcome = NoOutcome

(***************************************************************************)
(* The crawler: main of crawling/crawler.py and of crawling/main_crawler.py *)
(* (the same loop, without the saved state and with every fetch counted).  *)
(* One loop iteration is one step.  A URL is its path on the allowed       *)
(* domain; time is counted in sleeps of the loop: a queue entry holds the  *)
(* number of sleeps left before its re-crawl time is reached.              *)
(***************************************************************************)
SEED_URLS == <<"/">>
Urls == {"/", "/a", "/b", "/live/x", "//other/"}

\* urlparse(link).netloc == ALLOWED_DOMAIN
InAllowedDomain(link) == link # "//other/"

\* LIVE_URL_PATTERN in url
IsLive(url) == url = "/live/x"

MAX_DEPTH == 2
MAX_PAGES_TO_CRAWL == 3
\* RECRAWL_INTERVAL_SECONDS, in sleeps of the loop
RECRAWL_INTERVAL == 2

\* The robots.txt files the parser may have read, as the URLs they disallow.
RobotsFiles == { {}, {"/b", "/live/x"} }

\* What the network answers to one requests.get.
LinkLists ==
    { <<>>, <<"/a", "/live/x", "//other/", "/a">>, <<"/b", "/">>,
      <<"/live/x", "/b">> }
Responses ==
    { [kind |-> "ok", links |-> l] : l \in LinkLists } \cup
    { [kind |-> "304", links |-> <<>>], [kind |-> "error", links |-> <<>>] }

NoState ==
    [exists |-> FALSE, frontier |-> <<>>, visited |-> {},
     priority_queue |-> <<>>]

NoCrawl ==
    [pc |-> "idle", program |-> "crawler",
     exploration_frontier |-> <<>>, visited_urls |-> {},
     high_priority_queue |-> <<>>, pages_processed_count |-> 0,
     disallowed |-> {}, requested |-> "none", dequeued |-> {},
     state_folder |-> NoState]

CrawlInit == crawl = NoCrawl

\* load_state: the saved triple if the state folder exists, else the seeds
load_state(folder) ==
    IF folder.exists
    THEN [frontier |-> folder.frontier, visited |-> folder.visited,
          priority_queue |-> folder.priority_queue]
    ELSE [frontier |-> [i \in 1..Len(SEED_URLS) |-> <<SEED_URLS[i], 0>>],
          visited |-> Range(SEED_URLS),
          priority_queue |-> <<>>]

\* robot_parser.can_fetch("*", url)
can_fetch(c, url) == url \notin c.disallowed

\* one sleep of the loop passes
Sleep(queue) ==
    [i \in 1..Len(queue) |->
        <<queue[i][1], IF queue[i][2] > 0 THEN queue[i][2] - 1 ELSE 0>>]

\* the re-crawl times of a loaded queue after the time between two runs
Elapse(queue, elapsed) ==
    IF elapsed THEN [i \in 1..Len(queue) |-> <<queue[i][1], 0>>] ELSE queue

\* process_page_and_extract_links of crawler.py, process_page of
\* main_crawler.py: [none, links], none for the None of an error
process_page_and_extract_links(program, response) ==
    IF program = "crawler"
    THEN [none |-> response.kind = "error",
          links |-> IF response.kind = "ok" THEN response.links ELSE <<>>]
    ELSE [none |-> FALSE,
          links |-> IF response.kind = "ok" THEN response.links ELSE <<>>]

\* pages_processed_count after a fetch: main_crawler.py counts every fetch
Counted(c, new_links) ==
    IF c.program = "crawler" /\ new_links.none
    THEN c.pages_processed_count
    ELSE c.pages_processed_count + 1

\* the loop over new_links that enqueues a link already in visited_urls too
add_links_ignoring_visited(c, new_links, current_depth) ==
    [c EXCEPT
       !.visited_urls = @ \cup { l \in Range(new_links) : InAllowedDomain(l) },
       !.exploration_frontier =
           @ \o SelectSeq([i \in 1..Len(new_links) |->
                              <<new_links[i], current_depth + 1>>],
                          LAMBDA e : InAllowedDomain(e[1]) /\ ~IsLive(e[1])),
       !.high_priority_queue =
           @ \o SelectSeq([i \in 1..Len(new_links) |->
                              <<new_links[i], RECRAWL_INTERVAL>>],
                          LAMBDA e : InAllowedDomain(e[1]) /\ IsLive(e[1]))]

\* for link in new_links (crawler.py:216-225)
RECURSIVE AddLinks(_, _, _)
AddLinks(c, new_links, current_depth) ==
    IF new_links = <<>> THEN c
    ELSE LET link == Head(new_links)
         IN  IF InAllowedDomain(link) /\ link \notin c.visited_urls
             THEN AddLinks(
                      [c EXCEPT
                         !.visited_urls = @ \cup {link},
                         !.high_priority_queue =
                             IF IsLive(link)
                             THEN Append(@, <<link, RECRAWL_INTERVAL>>)
                             ELSE @,
                         !.exploration_frontier =
                             IF IsLive(link) THEN @
                             ELSE Append(@, <<link, current_depth + 1>>)],
                      Tail(new_links), current_depth)
             ELSE AddLinks(c, Tail(new_links), current_depth)

\* main(new): the state is loaded (crawler.py) or seeded, robots.txt is read
CrawlerMain(program, new, robots, elapsed) ==
    /\ crawl.pc \in {"idle", "done"}
    /\ LET folder == IF program = "crawler" /\ new THEN NoState
                     ELSE crawl.state_folder
           st == IF program = "crawler" THEN load_state(folder)
                 ELSE load_state(NoState)
       IN  crawl' = [pc |-> "loop", program |-> program,
                     exploration_frontier |-> st.frontier,
                     visited_urls |-> st.visited,
                     high_priority_queue |-> Elapse(st.priority_queue, elapsed),
                     pages_processed_count |-> 0,
                     disallowed |-> robots, requested |-> "none",
                     dequeued |-> {}, state_folder |-> folder]

\* the condition of the while loop
LoopCondition(c) ==
    /\ c.exploration_frontier # <<>> \/ c.high_priority_queue # <<>>
    /\ c.pages_processed_count < MAX_PAGES_TO_CRAWL

\* high_priority_queue and high_priority_queue[0][1] <= time.time()
RecrawlDue(c) ==
    c.high_priority_queue # <<>> /\ Head(c.high_priority_queue)[2] = 0

\* 1. the first expired live page is fetched again and re-queued
Recrawl(response) ==
    /\ crawl.pc = "loop" /\ LoopCondition(crawl) /\ RecrawlDue(crawl)
    /\ LET url_to_recrawl == Head(crawl.high_priority_queue)[1]
           new_links == process_page_and_extract_links(crawl.program, response)
       IN  crawl' = [crawl EXCEPT
                        !.requested = url_to_recrawl,
                        !.pages_processed_count = Counted(crawl, new_links),
                        !.high_priority_queue =
                            Sleep(Append(Tail(@),
                                         <<url_to_recrawl, RECRAWL_INTERVAL>>)),
                        !.exploration_frontier = @]

\* 2. the first URL of the frontier is taken, checked, fetched, and its
\* links are queued
Explore(response) ==
    /\ crawl.pc = "loop" /\ LoopCondition(crawl) /\ ~RecrawlDue(crawl)
    /\ crawl.exploration_frontier # <<>>
    /\ LET current_url == Head(crawl.exploration_frontier)[1]
           current_depth == Head(crawl.exploration_frontier)[2]
           popped == [crawl EXCEPT !.exploration_frontier = Tail(@),
                                   !.dequeued = @ \cup {current_url}]
           new_links == process_page_and_extract_links(crawl.program, response)
           fetched == [popped EXCEPT
                          !.requested = current_url,
                          !.pages_processed_count = Counted(crawl, new_links)]
           added == AddLinks(fetched, new_links.links, current_depth)
       IN  IF current_depth >= MAX_DEPTH \/ ~can_fetch(crawl, current_url)
           THEN crawl' = popped
           ELSE crawl' = [added EXCEPT
                             !.high_priority_queue = Sleep(@)]

\* 3. the frontier is empty and no re-crawl is due: time.sleep(5)
Wait ==
    /\ crawl.pc = "loop" /\ LoopCondition(crawl) /\ ~RecrawlDue(crawl)
    /\ crawl.exploration_frontier = <<>>
    /\ crawl' = [crawl EXCEPT !.high_priority_queue = Sleep(@)]

\* the loop ends; crawler.py saves its state in the finally block
Exit ==
    /\ crawl.pc = "loop" /\ ~LoopCondition(crawl)
    /\ crawl' = [crawl EXCEPT
                    !.pc = "done",
                    !.state_folder =
                        IF crawl.program = "crawler"
                        THEN [exists |-> TRUE,
                              frontier |-> crawl.exploration_frontier,
                              visited |-> crawl.visited_urls,
                              priority_queue |-> crawl.high_priority_queue]
                        ELSE @]

LoopStep ==
    \/ \E response \in Responses : Recrawl(response)
    \/ \E response \in Responses : Explore(response)
    \/ Wait
    \/ Exit

(***************************************************************************)
(* Specifications: the vector index alone, the inverted index alone, the   *)
(* two indexes side by side, the fusion on every pair of result lists,     *)
(* and the retriever over an index under construction.                     *)
(***************************************************************************)
InitVec == VecInit /\ InvInit /\ HybInit /\ KwInit /\ CrawlInit /\ last = NoCall /\ ops = 0
NextVec == VecNext /\ UNCHANGED <<invVars, hybVars, kwVars, crawl>>
SpecVec == InitVec /\ [][NextVec]_vars

InitInv == VecInit /\ InvInit /\ HybInit /\ KwInit /\ CrawlInit /\ last = NoCall /\ ops = 0
NextInv ==
    \/ InvNext /\ UNCHANGED <<vecVars, hybVars, kwVars, crawl>>
    \/ \E ks \in ValidScorers, q \in Queries :
           InvScore(ks, q, MaxK, TRUE)
    \/ \E term \in TermInputs : InvLookup(term)
SpecInv == InitInv /\ [][NextInv]_vars

Init == VecInit /\ InvInit /\ HybInit /\ KwInit /\ CrawlInit /\ last = NoCall /\ ops = 0
Next ==
    \/ VecNext /\ UNCHANGED <<invVars, hybVars, kwVars, crawl>>
    \/ InvNext /\ UNCHANGED <<vecVars, hybVars, kwVars, crawl>>
Spec == Init /\ [][Next]_vars

InitFusion ==
    /\ VecInit /\ InvInit /\ KwInit /\ CrawlInit /\ last = NoCall /\ ops = 0
    /\ retriever = [exists |-> FALSE, documents_map |-> {}]
    /\ outcome = NoOutcome
    /\ \E v \in ResultLists, kw \in ResultLists, k \in 1..MaxK :
          fusion = [NoFusion EXCEPT !.pc = "call", !.vector_results = v,
                                    !.keyword_results = kw, !.k = k]
NextFusion == FusionStep
SpecFusion == InitFusion /\ [][NextFusion]_vars

InitHybrid == VecInit /\ InvInit /\ HybInit /\ KwInit /\ CrawlInit /\ last = NoCall /\ ops = 0
NextHybrid ==
    \/ \E cs \in ChunkSeqs, bs \in 1..MaxBatch :
          VecBuildIndex(cs, bs) /\ UNCHANGED <<invVars, hybVars, kwVars, crawl>>
    \/ \E cs \in ChunkSeqs : InvBuildIndex(cs) /\ UNCHANGED <<vecVars, hybVars, kwVars, crawl>>
    \/ \E docs \in SUBSET ChunkIds, kws \in {{}, {"alpha"}}, a \in Alphas :
          HybridNew(docs, kws, a)
    \/ \E m \in {"retrieve", "search"}, q \in Queries, k \in 1..MaxK,
          t \in ArgsortTies :
          HybridCall(m, q, k, t)
SpecHybrid == InitHybrid /\ [][NextHybrid]_vars

\* The keyword scorer over an inverted index of the English corpus.
InitScorer == VecInit /\ InvInit /\ HybInit /\ KwInit /\ CrawlInit /\ last = NoCall /\ ops = 0
NextScorer ==
    \/ \E cs \in ScenarioSeqs :
          /\ InvBuildIndex(cs)
          /\ scored' = NoScore
          /\ UNCHANGED <<vecVars, hybVars, scorer, crawl>>
    \/ \E k1 \in K1Inputs, b \in BInputs :
          /\ KeywordScorerNew(k1, b)
          /\ UNCHANGED <<vecVars, invVars, hybVars, crawl, last, ops>>
    \/ \E q \in ScenarioQueries, top_k \in 1..MaxK, normalize \in BOOLEAN :
          /\ KeywordScore(q, top_k, normalize)
          /\ UNCHANGED <<vecVars, invVars, hybVars, crawl, last, ops>>
SpecScorer == InitScorer /\ [][NextScorer]_vars

\* Queries of several callers against the two indexes once they are built.
QueryStep ==
    \/ \E q \in QueryInputs, t \in ArgsortTies :
          VecSearch(q, MaxK, t) /\ UNCHANGED <<invVars, hybVars, kwVars, crawl>>
    \/ \E ks \in ValidScorers, q \in Queries, normalize \in BOOLEAN :
          InvScore(ks, q, MaxK, normalize)
    \/ \E term \in TermInputs : InvLookup(term)

InitQuery == VecInit /\ InvInit /\ HybInit /\ KwInit /\ CrawlInit /\ last = NoCall /\ ops = 0
NextQuery ==
    \/ \E cs \in ChunkSeqs :
          VecBuildIndex(cs, 1) /\ UNCHANGED <<invVars, hybVars, kwVars, crawl>>
    \/ \E cs \in InvChunkSeqs :
          InvBuildIndex(cs) /\ UNCHANGED <<vecVars, hybVars, kwVars, crawl>>
    \/ QueryStep
SpecQuery == InitQuery /\ [][NextQuery]_vars

\* The runs of the crawler, one after another on one state folder.
InitCrawler == VecInit /\ InvInit /\ HybInit /\ KwInit /\ CrawlInit /\ last = NoCall /\ ops = 0
NextCrawler ==
    \/ \E program \in {"crawler", "main_crawler"}, new \in BOOLEAN,
          robots \in RobotsFiles, elapsed \in BOOLEAN :
          /\ CrawlerMain(program, new, robots, elapsed)
          /\ UNCHANGED <<vecVars, invVars, hybVars, kwVars, last, ops>>
    \/ \E response \in Responses :
          /\ Recrawl(response)
          /\ UNCHANGED <<vecVars, invVars, hybVars, kwVars, last, ops>>
    \/ \E response \in Responses :
          /\ Explore(response)
          /\ UNCHANGED <<vecVars, invVars, hybVars, kwVars, last, ops>>
    \/ Wait /\ UNCHANGED <<vecVars, invVars, hybVars, kwVars, last, ops>>
    \/ Exit /\ UNCHANGED <<vecVars, invVars, hybVars, kwVars, last, ops>>
SpecCrawler == InitCrawler /\ [][NextCrawler]_vars

\* The loop keeps running: an iteration that can be taken is taken.
SpecCrawlerLive == SpecCrawler /\ WF_crawl(LoopStep)

(***************************************************************************)
(* Claims on the hybrid retriever.                                         *)
(***************************************************************************)
\* The 1-based position of id in a list without repetitions, 0 if absent.
Position(list, id) ==
    IF \E i \in 1..Len(list) : list[i] = id
    THEN CHOOSE i \in 1..Len(list) : list[i] = id
    ELSE 0

\* What one list contributes to a chunk: 1/(60 + p), p its 1-based
\* position in the list, nothing when the chunk is not in the list.
Contribution(list, id) ==
    IF Position(list, id) = 0 THEN FZero ELSE Frac(1, 60 + Position(list, id))

ExpectedScore(id) ==
    FAdd(Contribution(fusion.vector_results, id),
         Contribution(fusion.keyword_results, id))

ScoreOf(i) == fusion.results[i][2]
IdOf(i) == fusion.results[i][1]

FirstSeen(id) ==
    Position(fusion.vector_results \o fusion.keyword_results, id)

RetrieveReturnsTopK ==
    outcome.status = "ok" /\ Len(outcome.results) <= MaxK

\* C3: every call of retrieve(query, k) returns (gets 2k candidates from
\* each scorer, fuses them and gives back at most k of them).
C3_RetrieveReturns ==
    outcome.call = "retrieve" => RetrieveReturnsTopK

\* C4: a retriever can be built with a weight alpha and asked for the
\* weighted fusion: the construction with alpha succeeds, and its search
\* returns records with hybrid = alpha * vector + (1 - alpha) * keyword.
C4_WeightedFusion ==
    /\ (outcome.call = "HybridRetriever" /\ outcome.alpha # FZero)
          => outcome.status = "ok"
    /\ outcome.call = "search" =>
          /\ outcome.status = "ok"
          /\ \A i \in 1..Len(outcome.results) :
                LET r == outcome.results[i]
                    one_minus == Frac(outcome.alpha[2] - outcome.alpha[1],
                                      outcome.alpha[2])
                IN  r.hybrid_score =
                        FAdd(FMul(outcome.alpha, r.vector_score),
                             FMul(one_minus, r.keyword_score))

(***************************************************************************)
(* Claims on the inverted index.                                           *)
(***************************************************************************)
MeanTokenLength(chunks) ==
    IF chunks = <<>> THEN FZero
    ELSE Frac(SumSeq([i \in 1..Len(chunks) |->
                        Len(InvertedIndex_tokenize(ChunkText(chunks[i])))]),
              Len(chunks))

\* C5: build_index replaces all state: in every reachable state of the
\* index, build_index(chunks) leaves exactly the index a fresh object
\* would hold after build_index(chunks), with N = len(chunks) and avg_dl
\* the mean token length of chunks (0.0 for no chunks).
C5_BuildReplacesState ==
    \A cs \in ChunkSeqs :
        LET r == InvertedIndex_build_index(II, cs)
        IN  /\ r = InvertedIndex_build_index(InvertedIndex_init, cs)
            /\ r.N = Len(cs)
            /\ r.avg_dl = MeanTokenLength(cs)

\* What does hold of build_index: on a fresh index it yields N = len(chunks)
\* and the mean token length.
C5_FreshBuild ==
    \A cs \in ChunkSeqs :
        LET r == InvertedIndex_build_index(InvertedIndex_init, cs)
        IN  r.N = Len(cs) /\ r.avg_dl = MeanTokenLength(cs)

\* C6: right after a load that returned, index, chunk_lengths, N and avg_dl
\* are those of the index that wrote the file.
C6_InvertedRoundTrip ==
    last = "InvertedIndex.load" =>
        /\ index = inv_saved.index
        /\ chunk_lengths = inv_saved.chunk_lengths
        /\ N = inv_saved.N
        /\ avg_dl = inv_saved.avg_dl

C6_Witness ==
    /\ last = "InvertedIndex.load"
    /\ N > 0
    /\ Len(index) > 1
    /\ avg_dl # FZero

(***************************************************************************)
(* Claims on the vector index.                                             *)
(***************************************************************************)
SameAnswer(a, b) == a.status = b.status /\ a.results = b.results

\* C7: right after a load that returned, search answers every query and
\* every k as the index that wrote the two artifacts did (on one numpy
\* build, that is with one order of ties).
C7_VectorRoundTrip ==
    last = "VectorIndex.load" =>
        \A q \in QueryInputs, k \in 1..MaxK, t \in ArgsortTies :
            SameAnswer(VectorIndex_search(VI, q, k, t),
                       VectorIndex_search(vec_saved, q, k, t))

C7_Witness ==
    /\ last = "VectorIndex.load"
    /\ Len(VectorIndex_search(VI, Array1(<<1, 0>>), MaxK, "ascending").results) > 1
    /\ <<3, 4>> \in Range(embeddings_matrix)

\* C8: a load whose file is missing raises FileNotFoundError and leaves
\* the object as it was, for the inverted index and, when either artifact
\* is missing, for the vector index.
C8_MissingFile ==
    /\ ~inv_disk.exists =>
          InvertedIndex_load(II, inv_disk) =
              [status |-> "FileNotFoundError", ii |-> II]
    /\ (~vec_disk.emb_exists \/ ~vec_disk.ids_exists) =>
          VectorIndex_load(VI, vec_disk) =
              Outcome("FileNotFoundError", VI, <<>>)

C8_Witness ==
    /\ ~inv_disk.exists
    /\ vec_disk.emb_exists /\ ~vec_disk.ids_exists
    /\ vec_disk.emb # embeddings_matrix

Not1D(a) == a.kind # "ndarray" \/ a.ndim # 1

\* C9: add_document of an embedding that is not 1-D raises and leaves
\* document_ids and embeddings alone; otherwise it appends the id and the
\* embedding at the same position of the two sequences and leaves the
\* normalized matrix alone.
C9_AddDocument ==
    \A c \in ChunkIds, e \in EmbeddingInputs :
        LET r == VectorIndex_add_document(VI, c, e)
        IN  IF Not1D(e)
            THEN /\ r.status = "ValueError"
                 /\ r.vi.document_ids = document_ids
                 /\ r.vi.embeddings = embeddings
            ELSE /\ r.status = "ok"
                 /\ r.vi.document_ids = Append(document_ids, c)
                 /\ r.vi.embeddings = Append(embeddings, e.data)
                 /\ Len(r.vi.document_ids) = Len(r.vi.embeddings)
                 /\ r.vi.normalized_embeddings_matrix =
                        normalized_embeddings_matrix

\* The same without the position: what add_document does by itself.
C9_AddDocumentAppends ==
    \A c \in ChunkIds, e \in EmbeddingInputs :
        LET r == VectorIndex_add_document(VI, c, e)
        IN  IF Not1D(e)
            THEN /\ r.status = "ValueError"
                 /\ r.vi.document_ids = document_ids
                 /\ r.vi.embeddings = embeddings
            ELSE /\ r.status = "ok"
                 /\ r.vi.document_ids = Append(document_ids, c)
                 /\ r.vi.embeddings = Append(embeddings, e.data)
                 /\ r.vi.normalized_embeddings_matrix =
                        normalized_embeddings_matrix

\* A query is malformed for an index of dimension d.
Malformed(q, d) == Not1D(q) \/ Len(q.data) # d

\* The dimension of the index: the row length of its normalized matrix.
HasDimension == MatrixSize(normalized_embeddings_matrix) # 0
Dimension == Len(normalized_embeddings_matrix[1])

\* C10 as claimed: in every state of the index, search raises for a query
\* that is not 1-D, or whose length is not the dimension of the index.
C10_SearchRejectsMalformed ==
    \A q \in QueryInputs, k \in 1..MaxK, t \in ArgsortTies :
        (Not1D(q) \/ (HasDimension /\ Len(q.data) # Dimension)) =>
            VectorIndex_search(VI, q, k, t).status = "ValueError"

\* C10 as amended: search raises for a malformed query whenever the
\* normalized matrix is not empty; on an empty one it returns [] whatever
\* the query is.
C10_SearchRejectsMalformedWhenBuilt ==
    \A q \in QueryInputs, k \in 1..MaxK, t \in ArgsortTies :
        IF HasDimension
        THEN Malformed(q, Dimension) =>
                VectorIndex_search(VI, q, k, t).status = "ValueError"
        ELSE VectorIndex_search(VI, q, k, t) = Outcome("ok", VI, <<>>)

C10_Witness ==
    /\ last = "build_index"
    /\ Len(normalized_embeddings_matrix) > 1
    /\ Dimension > 1
    /\ VectorIndex_search(VI, Array1(<<2>>), 1, "ascending").status = "ValueError"

(***************************************************************************)
(* Claims on the ranking of VectorIndex.search.                            *)
(***************************************************************************)
\* The index is built: one row of the matrices and one id per entry.
Built ==
    /\ MatrixSize(normalized_embeddings_matrix) # 0
    /\ Len(document_ids) = Len(normalized_embeddings_matrix)
    /\ embeddings_matrix = embeddings

\* The cosine of a query and a stored embedding (0 for a zero embedding).
Cosine(q, row) ==
    IF Norm(row) = 0 THEN FZero
    ELSE Frac(SumSeq([i \in 1..Len(q) |-> q[i] * row[i]]), Norm(q) * Norm(row))

WellFormed(q) == ~Not1D(q) /\ Len(q.data) = Dimension

\* entry a ranks before entry b: greater cosine, or equal cosine and
\* inserted earlier
RanksBefore(q, a, b) ==
    LET sa == Cosine(q.data, embeddings_matrix[a])
        sb == Cosine(q.data, embeddings_matrix[b])
    IN  FLess(sb, sa) \/ (sa = sb /\ a < b)

\* results is the list of the first min(k, n) entries in RanksBefore order
IsRanking(results, q, k) ==
    LET n == Len(document_ids)
        m == Min(k, n)
    IN  /\ Len(results) = m
        /\ \E idx \in [1..m -> 1..n] :
              /\ \A i \in 1..m :
                    results[i] = <<document_ids[idx[i]],
                                   Cosine(q.data, embeddings_matrix[idx[i]])>>
              /\ \A i, j \in 1..m : i < j => RanksBefore(q, idx[i], idx[j])
              /\ \A i \in 1..m, e \in 1..n :
                    (\A j \in 1..m : idx[j] # e) => RanksBefore(q, idx[i], e)

\* C11: on a built index of n entries, search returns the min(k, n) entries
\* of greatest cosine similarity in descending order, entries of equal
\* similarity in the order of their insertion.
C11_SearchRanking ==
    Built =>
        \A q \in QueryInputs, k \in 1..MaxK, t \in ArgsortTies :
            WellFormed(q) =>
                LET r == VectorIndex_search(VI, q, k, t)
                IN  r.status = "ok" /\ IsRanking(r.results, q, k)

\* What holds on every numpy build where argsort puts equal values in
\* descending index order, and what holds of the scores on every build.
C11_RankingWithDescendingTies ==
    Built =>
        \A q \in QueryInputs, k \in 1..MaxK :
            WellFormed(q) =>
                LET r == VectorIndex_search(VI, q, k, "descending")
                IN  r.status = "ok" /\ IsRanking(r.results, q, k)

(***************************************************************************)
(* Claims on the empty vector index.                                       *)
(***************************************************************************)
\* search returns [], without raising, whatever the query and k are
EmptyAnswers ==
    \A q \in QueryInputs, k \in 1..MaxK, t \in ArgsortTies :
        VectorIndex_search(VI, q, k, t) = Outcome("ok", VI, <<>>)

\* C12: search returns [] on an empty index: on a freshly constructed one,
\* on one built with no embeddings, and add_document leaves an index that
\* answers [] answering [] (documents added, build never called).
C12_EmptyIndexSearch ==
    /\ [](last \in {NoCall, "VectorIndex"} => EmptyAnswers)
    /\ []((last \in {"build", "build_index"} /\ embeddings = <<>>)
             => EmptyAnswers)
    /\ [][(EmptyAnswers /\ last' = "add_document" /\ ops' = ops + 1)
             => EmptyAnswers']_vars

\* Documents were added to an index that was never built, and search with
\* a query of their length returns [].
C12_Witness ==
    /\ last = "add_document"
    /\ Len(embeddings) > 1
    /\ embeddings[1] = <<3, 4>>
    /\ normalized_embeddings_matrix = <<>>
    /\ VectorIndex_search(VI, Array1(<<3, 4>>), 1, "ascending")
           = Outcome("ok", VI, <<>>)

(***************************************************************************)
(* Claims on VectorIndex.build_index.                                      *)
(***************************************************************************)
\* C13: in every state of the index and for every chunk list, build_index
\* gives the same outcome (document_ids, embeddings, the two matrices, or
\* the same error) whatever the batch size is.
C13_BatchSizeIndependent ==
    \A cs \in ChunkSeqs :
        LET one == VectorIndex_build_index(VI, cs, 1)
        IN  \A batch_size \in 1..MaxBatch :
                VectorIndex_build_index(VI, cs, batch_size) = one

\* An index built from more chunks than one batch of size 1 holds, which
\* batches of size 1 and of size 2 split differently.
C13_Witness ==
    /\ last = "build_index"
    /\ Len(document_ids) > 1
    /\ Len(normalized_embeddings_matrix) = Len(document_ids)
    /\ VectorIndex_build_index(VectorIndex_init, <<1, 2>>, 1).vi = VI
    /\ VectorIndex_build_index(VectorIndex_init, <<1, 2>>, 2).vi = VI

(***************************************************************************)
(* C14: with normalize=True a call of KeywordScorer.score that returns     *)
(* gives the min-max rescaling of the raw BM25 sums of all the matched     *)
(* chunks (taken before the cut to top_k): every score is in [0,1], the    *)
(* first is 1, all are 1 when the raw sums are equal, and nothing is       *)
(* returned when no chunk matched.                                         *)
(***************************************************************************)
FLeq(a, b) == ~FLess(b, a)

IsMinMaxOf(results, raw_scores) ==
    LET vals == Range(DictValues(raw_scores))
        mx == CHOOSE x \in vals : \A y \in vals : FLeq(y, x)
        mn == CHOOSE x \in vals : \A y \in vals : FLeq(x, y)
    IN  \A i \in 1..Len(results) :
            LET cid == results[i][1]
                sc == results[i][2]
            IN  /\ DictHas(raw_scores, cid)
                /\ FLeq(FZero, sc) /\ FLeq(sc, Frac(1, 1))
                /\ IF mx = mn THEN sc = Frac(1, 1)
                   ELSE FMul(sc, FSub(mx, mn))
                            = FSub(DictGet(raw_scores, cid, FZero), mn)

C14_NormalizedScores ==
    \A q \in Queries :
        LET ks == DefaultScorer
            raw == RawScores(II, ks, q)
        IN  raw.status = "ok" =>
                \A top_k \in 1..MaxK :
                    LET r == KeywordScorer_score(II, ks, q, top_k, TRUE)
                    IN  /\ r.status = "ok"
                        /\ raw.raw_scores = <<>> => r.results = <<>>
                        /\ raw.raw_scores # <<>> =>
                               /\ r.results # <<>>
                               /\ r.results[1][2] = Frac(1, 1)
                               /\ IsMinMaxOf(r.results, raw.raw_scores)

C14_Witness ==
    /\ last = "InvertedIndex.build_index"
    /\ LET raw == RawScores(II, DefaultScorer, <<"guerra", "iran">>)
           r == KeywordScorer_score(II, DefaultScorer, <<"guerra", "iran">>,
                                    MaxK, TRUE)
       IN  /\ raw.status = "ok"
           /\ Len(raw.raw_scores) = 2
           /\ raw.raw_scores[1][2] # raw.raw_scores[2][2]
           /\ Len(r.results) = 2
           /\ r.results[1][2] = Frac(1, 1)
           /\ r.results[2][2] = FZero

(***************************************************************************)
(* C15: KeywordScorer.score returns min(top_k, matched) pairs, the matched *)
(* chunks of highest score in descending order of score; chunks of equal   *)
(* score come in the order in which raw_scores first met them (query terms *)
(* in order, then the postings of each term in order).                     *)
(***************************************************************************)
\* the place of a chunk in raw_scores
Met(raw_scores, cid) == CHOOSE i \in 1..Len(raw_scores) : raw_scores[i][1] = cid

\* chunk x is ranked before chunk y
Before(raw_scores, x, y) ==
    LET sx == DictGet(raw_scores, x, FZero)
        sy == DictGet(raw_scores, y, FZero)
    IN  \/ FLess(sy, sx)
        \/ sx = sy /\ Met(raw_scores, x) < Met(raw_scores, y)

IsTopK(results, raw_scores, top_k) ==
    LET ids == [i \in 1..Len(results) |-> results[i][1]]
    IN  /\ Len(results) = Min(top_k, Len(raw_scores))
        /\ \A i \in 1..Len(ids) : DictHas(raw_scores, ids[i])
        /\ \A i, j \in 1..Len(ids) :
               i < j => /\ Before(raw_scores, ids[i], ids[j])
                        /\ FLeq(results[j][2], results[i][2])
        /\ \A i \in 1..Len(ids), j \in 1..Len(raw_scores) :
               raw_scores[j][1] \notin Range(ids)
                   => Before(raw_scores, ids[i], raw_scores[j][1])

C15_TopKOrder ==
    \A ks \in ValidScorers, q \in Queries :
        LET raw == RawScores(II, ks, q)
        IN  raw.status = "ok" =>
                \A top_k \in 1..MaxK, normalize \in BOOLEAN :
                    LET r == KeywordScorer_score(II, ks, q, top_k, normalize)
                    IN  /\ r.status = "ok"
                        /\ IsTopK(r.results, raw.raw_scores, top_k)
                        /\ ~normalize =>
                               \A i \in 1..Len(r.results) :
                                   r.results[i][2]
                                       = DictGet(raw.raw_scores,
                                                 r.results[i][1], FZero)

\* two chunks of equal score, met in the order c2, c1, and returned so
C15_Witness ==
    /\ last = "InvertedIndex.build_index"
    /\ LET ks == KeywordScorer_init(FZero, Frac(3, 4))
           raw == RawScores(II, ks, <<"Iran">>)
           r == KeywordScorer_score(II, ks, <<"Iran">>, MaxK, FALSE)
       IN  /\ raw.status = "ok"
           /\ Len(raw.raw_scores) = 2
           /\ raw.raw_scores[1][1] = 2 /\ raw.raw_scores[2][1] = 1
           /\ raw.raw_scores[1][2] = raw.raw_scores[2][2]
           /\ Len(r.results) = 2
           /\ r.results[1][1] = 2 /\ r.results[2][1] = 1

(***************************************************************************)
(* C16: KeywordScorer.score never raises a division by zero in a state of  *)
(* the inverted index reached through build_index and load, and on an      *)
(* index with N = 0 it returns [] for every query.                         *)
(***************************************************************************)
C16_NoZeroDivision ==
    \A q \in Queries :
        KeywordScorer_score(II, DefaultScorer, q, MaxK, TRUE).status
            # "ZeroDivisionError"

C16_EmptyCorpusScoresNothing ==
    N = 0 =>
        \A q \in Queries :
            KeywordScorer_score(II, DefaultScorer, q, MaxK, TRUE)
                = [status |-> "ok", results |-> <<>>]

C16_ScoreGuarded == C16_NoZeroDivision /\ C16_EmptyCorpusScoresNothing

\* What does hold: on an index that was built once, or never, score returns.
C16_FreshIndexScores ==
    \A cs \in InvChunkSeqs, q \in Queries :
        LET ii == InvertedIndex_build_index(InvertedIndex_init, cs)
            r == KeywordScorer_score(ii, DefaultScorer, q, MaxK, TRUE)
        IN  /\ r.status = "ok"
            /\ ii.N = 0 => r.results = <<>>

(***************************************************************************)
(* C17: a KeywordScorer with k1 < 0 or b outside [0,1] is rejected when it *)
(* is constructed, so that no such scorer exists and none ever scores.     *)
(***************************************************************************)
ValidConfig(ks) ==
    /\ FLeq(FZero, ks.k1)
    /\ FLeq(FZero, ks.b) /\ FLeq(ks.b, Frac(1, 1))

C17_ConfigRejected ==
    /\ scorer.exists => ValidConfig(scorer.ks)
    /\ scored.call = "score" => ValidConfig(scorer.ks)

(***************************************************************************)
(* C18: get_postings(term) returns the posting list stored under the       *)
(* lower-cased term, or the empty list when there is none; df(term) is the *)
(* length of that list, 0 for an unknown term; neither depends on the case *)
(* of the term and neither raises.                                         *)
(***************************************************************************)
StoredUnder(key) ==
    IF \E i \in 1..Len(index) : index[i][1] = key
    THEN index[CHOOSE i \in 1..Len(index) : index[i][1] = key][2]
    ELSE <<>>

SameWord(s, t) ==
    \/ s = t
    \/ {s, t} \subseteq {"iran", "Iran", "IRAN"}
    \/ {s, t} \subseteq {"guerr", "Guerr"}

C18_Lookups ==
    \A term \in TermInputs :
        /\ InvertedIndex_get_postings(II, term) = StoredUnder(Lower(term))
        /\ InvertedIndex_df(II, term)
               = Len(InvertedIndex_get_postings(II, term))
        /\ (\A i \in 1..Len(index) : ~SameWord(index[i][1], term))
               => /\ InvertedIndex_get_postings(II, term) = <<>>
                  /\ InvertedIndex_df(II, term) = 0
        /\ \A other \in TermInputs :
               SameWord(term, other) =>
                   InvertedIndex_get_postings(II, term)
                       = InvertedIndex_get_postings(II, other)

C18_Witness ==
    /\ last = "InvertedIndex.build_index"
    /\ Len(InvertedIndex_get_postings(II, "IRAN")) = 2
    /\ InvertedIndex_get_postings(II, "IRAN") = StoredUnder("iran")
    /\ InvertedIndex_df(II, "Iran") = 2
    /\ InvertedIndex_df(II, "pace") = 0

(***************************************************************************)
(* C19: VectorialScorer.score(query, k) returns the list VectorIndex.search *)
(* gives for the embedded query, the same (chunk_id, similarity) pairs in  *)
(* the same order, and fails for no chunk id stored in the vector index.   *)
(***************************************************************************)
C19_ScoreIsSearch ==
    retriever.exists =>
        \A q \in Queries, k \in 1..MaxK, t \in ArgsortTies :
            LET s == VectorIndex_search(VI, Array1(Encode(q)), k, t)
                r == VectorialScorer_score(VI, retriever.documents_map, q, k, t)
            IN  s.status = "ok" => r.status = "ok" /\ r.results = s.results

\* What does hold: when score returns, its list has the length, the order
\* and the similarities of the search, and the Document of each chunk id.
C19_ScoreMirrorsSearch ==
    retriever.exists =>
        \A q \in Queries, k \in 1..MaxK, t \in ArgsortTies :
            LET s == VectorIndex_search(VI, Array1(Encode(q)), k, t)
                r == VectorialScorer_score(VI, retriever.documents_map, q, k, t)
            IN  r.status = "ok" =>
                    /\ s.status = "ok"
                    /\ Len(r.results) = Len(s.results)
                    /\ \A i \in 1..Len(r.results) :
                           /\ r.results[i][1].id = s.results[i][1]
                           /\ r.results[i][2] = s.results[i][2]

(***************************************************************************)
(* C20: on the index built from c1 = "trade policy Brazil agriculture",    *)
(* c2 = "agriculture subsidies Brazil" and c3 = "unrelated astronomy text" *)
(* the query "agriculture Brazil" gives score(c2) >= score(c1) > 0, no     *)
(* score for c3, and [c2, c1] with top_k = 2.  (c1, c2, c3 are the chunks  *)
(* 11, 12, 13.)                                                            *)
(***************************************************************************)
ScenarioCase ==
    /\ II \in { InvertedIndex_build_index(InvertedIndex_init, ScenarioChunks),
                InvertedIndex_build_index(InvertedIndex_init,
                                          Reverse(ScenarioChunks)) }
    /\ scorer.ks = DefaultScorer
    /\ scored.call = "score"
    /\ scored.query = <<"agriculture", "Brazil">>

Scored(cid) == DictGet(scored.results, cid, FZero)

NoScoreForC3 ==
    ~DictHas(RawScores(II, scorer.ks, scored.query).raw_scores, 13)

C20_ScenarioScores ==
    (ScenarioCase /\ scored.top_k = 2) =>
        /\ scored.status = "ok"
        /\ NoScoreForC3
        /\ [i \in 1..Len(scored.results) |-> scored.results[i][1]] = <<12, 11>>
        /\ FLeq(Scored(11), Scored(12))
        /\ FLess(FZero, Scored(11))

\* As it holds: the raw scores are score(c2) > score(c1) > 0; the normalized
\* scores (the default) are 1.0 for c2 and 0.0 for c1.
C20_ScenarioRanking ==
    ScenarioCase =>
        /\ scored.status = "ok"
        /\ NoScoreForC3
        /\ [i \in 1..Len(scored.results) |-> scored.results[i][1]]
               = Take(<<12, 11>>, scored.top_k)
        /\ (~scored.normalize /\ scored.top_k >= 2) =>
               /\ FLess(Scored(11), Scored(12))
               /\ FLess(FZero, Scored(11))
        /\ (scored.normalize /\ scored.top_k >= 2) =>
               /\ Scored(12) = Frac(1, 1)
               /\ Scored(11) = FZero

C20_Witness ==
    /\ ScenarioCase
    /\ scored.top_k = 2
    /\ scored.normalize
    /\ scored.results = << <<12, Frac(1, 1)>>, <<11, FZero>> >>

(***************************************************************************)
(* C21: right after a build, a build_index or a load that returned, the    *)
(* vector index has as many document_ids as embeddings and as rows of the  *)
(* normalized matrix, and all the stored embeddings have one length.       *)
(***************************************************************************)
Aligned ==
    /\ Len(document_ids) = Len(embeddings)
    /\ Len(embeddings) = Len(normalized_embeddings_matrix)
    /\ \A i, j \in 1..Len(embeddings) : Len(embeddings[i]) = Len(embeddings[j])

\* build_index returned: the build at its end did not raise
BuildIndexReturned == last = "build_index" /\ ~VStackRaises(embeddings)

C21_VectorInvariant ==
    (last \in {"build", "VectorIndex.load"} \/ BuildIndexReturned) => Aligned

(* C22: in every state reached through build_index and load calls, when N > 0 avg_dl is the sum of
   the values of chunk_lengths divided by N, and every chunk id of every posting list has an entry in
   chunk_lengths. *)
PostingsHaveLengths ==
    \A i \in 1..Len(index) : \A j \in 1..Len(index[i][2]) :
        DictHas(chunk_lengths, index[i][2][j][1])

C22_InvertedInvariant ==
    /\ N > 0 => avg_dl = Frac(SumSeq(DictValues(chunk_lengths)), N)
    /\ PostingsHaveLengths

\* a loaded index that holds more chunk lengths than the N of its last build
C22_Witness ==
    /\ last = "InvertedIndex.load"
    /\ N > 0
    /\ Len(chunk_lengths) > N
    /\ index # <<>>

(* C23: score with normalize=False gives every chunk the sum, over the distinct stemmed query terms
   that have df > 0 and a posting (chunk, tf), of idf(df) * tf*(k1+1) / (tf + k1*(1 - b + b*dl/avg_dl)),
   one contribution for each such term; a term with df = 0 adds nothing, and a chunk that no term
   matches is not in the result. *)
RawQueries == Queries \cup { <<"iran", "Iran", "guerre">> }

\* the distinct query terms with df > 0 that have a posting of the chunk
MatchingTerms(query, chunk_id) ==
    { t \in Range(stem_text(query)) :
        /\ InvertedIndex_df(II, t) > 0
        /\ \E p \in Range(InvertedIndex_get_postings(II, t)) : p[1] = chunk_id }

Bm25Term(ks, term, chunk_id) ==
    LET tf == (CHOOSE p \in Range(InvertedIndex_get_postings(II, term)) :
                   p[1] = chunk_id)[2]
        dl == DictGet(chunk_lengths, chunk_id, 0)
        idf == KeywordScorer_idf(II, InvertedIndex_df(II, term))
        length_norm == FAdd(FSub(Frac(1, 1), ks.b),
                            FDiv(FMul(ks.b, Frac(dl, 1)), avg_dl))
    IN  Float(FDiv(FMul(idf, FMul(Frac(tf, 1), FAdd(ks.k1, Frac(1, 1)))),
                   FAdd(Frac(tf, 1), FMul(ks.k1, length_norm))))

RECURSIVE SumOfContributions(_, _, _)
SumOfContributions(ks, terms, chunk_id) ==
    IF terms = {} THEN FZero
    ELSE LET t == CHOOSE x \in terms : TRUE
         IN  FAdd(Bm25Term(ks, t, chunk_id),
                  SumOfContributions(ks, terms \ {t}, chunk_id))

IndexedIds == { chunk_lengths[i][1] : i \in 1..Len(chunk_lengths) }

RawScoreIsSum(ks, query) ==
    LET r == KeywordScorer_score(II, ks, query, MaxK, FALSE)
        matched == { c \in IndexedIds : MatchingTerms(query, c) # {} }
    IN  r.status = "ok" =>
            /\ \A i \in 1..Len(r.results) :
                   /\ r.results[i][1] \in matched
                   /\ r.results[i][2] =
                          SumOfContributions(ks,
                              MatchingTerms(query, r.results[i][1]),
                              r.results[i][1])
            /\ Len(r.results) = Min(MaxK, Cardinality(matched))

C23_RawScore ==
    \A ks \in ValidScorers, query \in RawQueries : RawScoreIsSum(ks, query)

\* no chunk has two postings under one term
OnePostingPerChunk ==
    \A i \in 1..Len(index) : \A j, k \in 1..Len(index[i][2]) :
        index[i][2][j][1] = index[i][2][k][1] => j = k

C23_RawScoreOfSingleBuild ==
    OnePostingPerChunk => C23_RawScore

(* C24: for every text, InvertedIndex._tokenize gives the term sequence that KeywordScorer.score
   derives from the same text as a query, so a one-word query finds a posting exactly when the
   index holds the term that word is indexed under. *)
Words ==
    {"Guerra", "guerra", "guerre", "iran", "Iran", "pace", "Brazil",
     "agriculture", "trade"}

Texts ==
    { ChunkText(c) : c \in 0..13 } \cup RawQueries \cup ScenarioQueries
        \cup { <<w>> : w \in Words }

C24_SamePipeline ==
    /\ \A text \in Texts : InvertedIndex_tokenize(text) = stem_text(text)
    /\ \A w \in Words :
           LET r == RawScores(II, DefaultScorer, <<w>>)
           IN  r.status = "ok" =>
                   (r.raw_scores # <<>>
                        <=> DictHas(index, InvertedIndex_tokenize(<<w>>)[1]))

\* the index holds the stem of "Guerra guerre", which the query "Guerra" finds
C24_Witness ==
    /\ last = "InvertedIndex.build_index"
    /\ DictHas(index, "guerr")
    /\ RawScores(II, DefaultScorer, <<"Guerra">>).status = "ok"
    /\ RawScores(II, DefaultScorer, <<"Guerra">>).raw_scores # <<>>

(* C25: score, get_postings, df and search leave index, chunk_lengths, N, avg_dl, document_ids,
   embeddings and the normalized matrix as they were (the lookup of an unknown term adds no entry),
   so a query, whose answer is computed from these fields alone, gets the same answer after any
   number of queries of other callers as before them. *)
IndexState ==
    <<index, chunk_lengths, N, avg_dl, document_ids, embeddings,
      embeddings_matrix, normalized_embeddings_matrix>>

C25_QueriesReadOnly == [][QueryStep => IndexState' = IndexState]_vars

\* both indexes are built, and a term that is not indexed can be looked up
C25_Witness ==
    /\ index # <<>>
    /\ ~DictHas(index, "pace")
    /\ N > 0
    /\ normalized_embeddings_matrix # <<>>
    /\ ENABLED QueryStep

(* C26: in every state reached through build_index and load, every term of the index has
   0 <= df <= N, a posting list holds at most one posting of a chunk, and the idf that score
   applies to the term is not negative. *)
C26_IdfNonNegative ==
    /\ OnePostingPerChunk
    /\ \A i \in 1..Len(index) :
           LET df == InvertedIndex_df(II, index[i][1])
           IN  /\ 0 <= df /\ df <= N
               /\ ~FLess(KeywordScorer_idf(II, df), FZero)

\* the idf part alone
C26_IdfSign ==
    \A i \in 1..Len(index) :
        ~FLess(KeywordScorer_idf(II, InvertedIndex_df(II, index[i][1])), FZero)

(* C27: the rows of the normalized matrix stay paired with document_ids; in particular a build()
   right after a load() that returned leaves the normalized matrix and document_ids, and so every
   search result, as the load left them. *)
C27_BuildAfterLoad ==
    [][(last = "VectorIndex.load" /\ last' = "build") =>
           /\ normalized_embeddings_matrix' = normalized_embeddings_matrix
           /\ document_ids' = document_ids]_vars

(* C28: in every run of the crawl loop, a URL is requested only if robot_parser.can_fetch allows
   it, whether it is taken from the exploration frontier or re-crawled from the high-priority
   queue. *)
C28_RobotsRespected ==
    crawl.requested # "none" => can_fetch(crawl, crawl.requested)

\* the same for the URLs taken from the exploration frontier alone
C28_FrontierRespectsRobots ==
    [][(crawl.pc = "loop" /\ crawl'.requested # crawl.requested
            /\ crawl'.exploration_frontier # crawl.exploration_frontier)
          => can_fetch(crawl, crawl'.requested)]_vars

(* C29: the crawl loop of crawling/crawler.py ends, whatever the network answers: a run that is in
   its loop reaches its exit, where the state is saved; pages_processed_count never exceeds
   MAX_PAGES_TO_CRAWL. *)
InCrawlerLoop == crawl.pc = "loop" /\ crawl.program = "crawler"

C29_LoopTerminates == InCrawlerLoop ~> crawl.pc = "done"

\* the two safety parts
C29_CountBounded == crawl.pages_processed_count <= MAX_PAGES_TO_CRAWL

C29_StateSavedOnExit ==
    (crawl.pc = "done" /\ crawl.program = "crawler") =>
        /\ crawl.state_folder.exists
        /\ crawl.state_folder.frontier = crawl.exploration_frontier
        /\ crawl.state_folder.visited = crawl.visited_urls
        /\ crawl.state_folder.priority_queue = crawl.high_priority_queue

(* C30: in every state of the crawl loop each URL of the exploration frontier or of the
   high-priority queue is in visited_urls, no URL occurs twice across the two queues, and a URL
   that the run has taken from the exploration frontier is in neither queue again. *)
QueuedUrls ==
    [i \in 1..Len(crawl.exploration_frontier) |->
        crawl.exploration_frontier[i][1]]
    \o [i \in 1..Len(crawl.high_priority_queue) |->
           crawl.high_priority_queue[i][1]]

C30_QueueInvariant ==
    /\ \A i \in 1..Len(QueuedUrls) : QueuedUrls[i] \in crawl.visited_urls
    /\ \A i, j \in 1..Len(QueuedUrls) : QueuedUrls[i] = QueuedUrls[j] => i = j
    /\ \A i \in 1..Len(QueuedUrls) : QueuedUrls[i] \notin crawl.dequeued

\* a run from the seeds with both queues filled after the seed page was taken
C30_Witness ==
    /\ crawl.pc = "loop"
    /\ ~crawl.state_folder.exists
    /\ "/" \in crawl.dequeued
    /\ crawl.exploration_frontier # <<>>
    /\ crawl.high_priority_queue # <<>>
====
